---- MODULE Spec2Model ----
\* Asynchronous multi-provider transcription jobs: JobManagerService (the
\* in-memory job store) and TranscriptionService (the orchestrator that runs
\* the provider adapters in the background), as one state machine.
\*
\* The runtime is single-threaded JavaScript: a handler or a promise
\* continuation runs to its next await without interleaving.  Every call into
\* the job store is one step of the model; while a synchronous block is
\* between two store calls (Busy) no other task takes a step.
EXTENDS Integers, FiniteSets, Sequences, TLC

\* ---------------------------------------------------------------- bounds
MaxJobs == 2
\* Jobs submitted in the specification with status requests.
MaxQueryJobs == 1
\* Repeated status requests that are counted.
PollCap == 2
\* Jobs submitted, one after the other, in the specifications with a clock.
MaxSweepJobs == 2
\* The clock counts hours and stops at MaxTime.
MaxTime == 3
\* Jobs submitted in the specifications that follow the AWS adapter call.
MaxAwsJobs == 1
\* Jobs created in the specification of the job store on its own.
MaxStoreJobs == 1

JobIds == 1..MaxJobs

\* ------------------------------------------------------------- constants
PENDING == "pending"
PROCESSING == "processing"
COMPLETED == "completed"
FAILED == "failed"

JobStatus == {PENDING, PROCESSING, COMPLETED, FAILED}

Providers == {"aws", "deepgram"}

\* An optional field that is absent (undefined).
Undefined == "undefined"
NoDate == 0 - 1
NoResult == [status |-> Undefined, transcript |-> Undefined, error |-> Undefined]

\* providerResults of a single-provider job is undefined: the mapping with no key.
NoProviderResults == [p \in {} |-> Undefined]

\* ------------------------------------------------------ provider adapters
\* What one adapter call can end in: the object it returns, or an exception.
ReturnCompleted ==
    [kind |-> "return",
     value |-> [status |-> "COMPLETED", transcript |-> "hello", error |-> "null"],
     message |-> Undefined]

ReturnFailed ==
    [kind |-> "return",
     value |-> [status |-> "FAILED", transcript |-> "null", error |-> "quota exceeded"],
     message |-> Undefined]

Throws ==
    [kind |-> "throw", value |-> NoResult, message |-> "upload failed"]

NoOutcome == [kind |-> "none", value |-> NoResult, message |-> Undefined]

\* AwsTranscribeService.transcribeFile has no try/catch: an S3 or Transcribe
\* error is thrown; a FAILED remote job is returned as a failure-shaped object.
AwsOutcomes == {ReturnCompleted, ReturnFailed, Throws}

\* DeepgramService.transcribeFile wraps its whole body in try/catch and returns
\* the failure shape from the catch block.
DeepgramOutcomes == {ReturnCompleted, ReturnFailed}

AdapterOutcomes(provider) ==
    IF provider = "aws" THEN AwsOutcomes ELSE DeepgramOutcomes

\* fs.unlinkSync either removes the file or throws.
UnlinkOutcomes == {"ok", "throw"}
UnlinkMessage == "unlink failed"

\* What Map.get returns for a key the table lacks.
NoJob ==
    [id |-> 0, status |-> Undefined, fileName |-> Undefined, filePath |-> 0,
     languageCode |-> Undefined, provider |-> Undefined, deepgramModel |-> Undefined,
     result |-> NoResult, error |-> Undefined, providerResults |-> NoProviderResults,
     createdAt |-> NoDate, completedAt |-> NoDate]

\* The body of an answer that carries no job.
NoJobView ==
    [id |-> 0, status |-> Undefined, fileName |-> Undefined,
     languageCode |-> Undefined, provider |-> Undefined,
     result |-> NoResult, providerResults |-> NoProviderResults, error |-> Undefined,
     createdAt |-> NoDate, completedAt |-> NoDate]

\* The answer to a status request that was never made.
NoResponse == [id |-> 0, found |-> FALSE, job |-> NoJobView]

\* ------------------------------------------------------------------ state
VARIABLES
    jobs,        \* JobManagerService.jobs: job id -> TranscriptionJob
    nextId,      \* number of ids handed out by randomUUID so far
    now,         \* the clock read by new Date(); no action of Spec advances it
    pc,          \* per job: position of its background task
    task,        \* per job and provider: position of the adapter call
    outcome,     \* per job and provider: what the adapter call ended in
    file,        \* per job: the uploaded input file on disk
    returned,    \* per job: the controller has received the job id
    termTrans,   \* per job: number of steps from a non-terminal to a terminal status
    raceFirst,   \* per job: the provider recorded first while the other provider's
                 \* outcome was already waiting to be recorded ("none": no such race)
    calls,       \* per job and provider: number of times the adapter was invoked
    unlinkLog,   \* per job: the outcome of every fs.unlinkSync call on its file
    response,    \* the answer of the latest GET job/:jobId request
    polls,       \* answers given in a row about the same ended job (up to PollCap)
    evicted,     \* ids that cleanupOldJobs has deleted from the store
    awsCall,     \* per job: where its AwsTranscribeService.transcribeFile call
                 \* stands and the state of the remote transcription job
    orphan       \* the file multer stored for an upload request that ended
                 \* before a job was created ("none": no such request)

vars == <<jobs, nextId, now, pc, task, outcome, file, returned, termTrans, raceFirst,
          calls, unlinkLog, response, polls, evicted, awsCall, orphan>>

Terminal(status) == status \in {COMPLETED, FAILED}

TerminalEntry(status) == status \in {"completed", "failed"}

\* ------------------------------------------------------ JobManagerService
HasProviderResults(job) == DOMAIN job.providerResults # {}

\* job.providerResults.<provider>?.status
EntryStatus(job, provider) ==
    IF provider \in DOMAIN job.providerResults
    THEN job.providerResults[provider].status
    ELSE Undefined

PendingEntry ==
    [status |-> "pending", result |-> NoResult, error |-> Undefined, completedAt |-> NoDate]

createJob(js, jobId, fileName, filePath, languageCode, provider, deepgramModel, t) ==
    (jobId :> [id |-> jobId,
               status |-> PENDING,
               fileName |-> fileName,
               filePath |-> filePath,
               languageCode |-> languageCode,
               provider |-> provider,
               deepgramModel |-> deepgramModel,
               result |-> NoResult,
               error |-> Undefined,
               providerResults |-> NoProviderResults,
               createdAt |-> t,
               completedAt |-> NoDate]) @@ js

\* Faulty variant: only the aws entry is there from the start.
createComparisonJob_awsOnly(js, jobId, fileName, filePath, languageCode, deepgramModel, t) ==
    (jobId :> [id |-> jobId,
               status |-> PENDING,
               fileName |-> fileName,
               filePath |-> filePath,
               languageCode |-> languageCode,
               provider |-> Undefined,
               deepgramModel |-> deepgramModel,
               result |-> NoResult,
               error |-> Undefined,
               providerResults |-> [p \in {"aws"} |-> PendingEntry],
               createdAt |-> t,
               completedAt |-> NoDate]) @@ js

createComparisonJob(js, jobId, fileName, filePath, languageCode, deepgramModel, t) ==
    (jobId :> [id |-> jobId,
               status |-> PENDING,
               fileName |-> fileName,
               filePath |-> filePath,
               languageCode |-> languageCode,
               provider |-> Undefined,
               deepgramModel |-> deepgramModel,
               result |-> NoResult,
               error |-> Undefined,
               providerResults |-> [p \in Providers |-> PendingEntry],
               createdAt |-> t,
               completedAt |-> NoDate]) @@ js

\* Faulty variants of the store operations (mutation tests of the properties).
\* areAllProvidersCompleted with || in place of &&.
areAllProvidersCompleted_anyDone(js, jobId) ==
    IF jobId \notin DOMAIN js \/ DOMAIN js[jobId].providerResults = {}
    THEN FALSE
    ELSE \E p \in DOMAIN js[jobId].providerResults :
            js[jobId].providerResults[p].status \in {"completed", "failed"}

\* failProviderResult that marks the job failed without looking for a success.
failProviderResult_noSuccessCheck(js, jobId, provider, error, t) ==
    IF jobId \in DOMAIN js /\ DOMAIN js[jobId].providerResults # {}
    THEN LET entry == [status |-> "failed", result |-> NoResult,
                       error |-> error, completedAt |-> t]
             job1 == [js[jobId] EXCEPT !.providerResults = (provider :> entry) @@ @]
             allDone == \A p \in Providers :
                           /\ p \in DOMAIN job1.providerResults
                           /\ job1.providerResults[p].status \in {"completed", "failed"}
             job2 == IF allDone
                     THEN [job1 EXCEPT !.status = FAILED, !.completedAt = t]
                     ELSE IF job1.status = PENDING
                          THEN [job1 EXCEPT !.status = PROCESSING]
                          ELSE job1
         IN  [js EXCEPT ![jobId] = job2]
    ELSE js

\* completeJob that forgets to stamp completedAt.
completeJob_noStamp(js, jobId, result, t) ==
    IF jobId \in DOMAIN js
    THEN [js EXCEPT ![jobId].status = COMPLETED,
                    ![jobId].result = result]
    ELSE js

\* Faulty variant: an unknown id gets an entry holding the status.
updateJobStatus_upsert(js, jobId, status) ==
    IF jobId \in DOMAIN js
    THEN [js EXCEPT ![jobId].status = status]
    ELSE (jobId :> [status |-> status]) @@ js

updateJobStatus(js, jobId, status) ==
    IF jobId \in DOMAIN js
    THEN [js EXCEPT ![jobId].status = status]
    ELSE js

areAllProvidersCompleted(js, jobId) ==
    IF jobId \notin DOMAIN js \/ ~HasProviderResults(js[jobId])
    THEN FALSE
    ELSE LET awsStatus == EntryStatus(js[jobId], "aws")
             deepgramStatus == EntryStatus(js[jobId], "deepgram")
         IN  /\ (awsStatus = "completed" \/ awsStatus = "failed")
             /\ (deepgramStatus = "completed" \/ deepgramStatus = "failed")

\* updateProviderResult that rebuilds providerResults from the creation-time
\* object instead of assigning one key: the sibling's entry is lost.
updateProviderResult_lostUpdate(js, jobId, provider, result, t) ==
    IF jobId \in DOMAIN js /\ HasProviderResults(js[jobId])
    THEN LET entry == [status |-> "completed", result |-> result,
                       error |-> Undefined, completedAt |-> t]
             job1 == [js[jobId] EXCEPT !.providerResults =
                         (provider :> entry) @@ [p \in Providers |-> PendingEntry]]
             js1 == [js EXCEPT ![jobId] = job1]
             job2 == IF areAllProvidersCompleted(js1, jobId)
                     THEN [job1 EXCEPT !.status = COMPLETED, !.completedAt = t]
                     ELSE IF job1.status = PENDING
                          THEN [job1 EXCEPT !.status = PROCESSING]
                          ELSE job1
         IN  [js EXCEPT ![jobId] = job2]
    ELSE js

\* updateProviderResult that never re-evaluates the job status: only the
\* failure path aggregates.
updateProviderResult_noAggregate(js, jobId, provider, result, t) ==
    IF jobId \in DOMAIN js /\ HasProviderResults(js[jobId])
    THEN LET entry == [status |-> "completed", result |-> result,
                       error |-> Undefined, completedAt |-> t]
         IN  [js EXCEPT ![jobId].providerResults = (provider :> entry) @@ @]
    ELSE js

\* updateProviderResult whose not-yet-all-done branch writes PENDING.
updateProviderResult_backToPending(js, jobId, provider, result, t) ==
    IF jobId \in DOMAIN js /\ HasProviderResults(js[jobId])
    THEN LET entry == [status |-> "completed", result |-> result,
                       error |-> Undefined, completedAt |-> t]
             job1 == [js[jobId] EXCEPT !.providerResults = (provider :> entry) @@ @]
             js1 == [js EXCEPT ![jobId] = job1]
             job2 == IF areAllProvidersCompleted(js1, jobId)
                     THEN [job1 EXCEPT !.status = COMPLETED, !.completedAt = t]
                     ELSE [job1 EXCEPT !.status = PENDING]
         IN  [js EXCEPT ![jobId] = job2]
    ELSE js

\* Faulty variant: the provider's result is also written to job.result.
updateProviderResult_alsoTopLevel(js, jobId, provider, result, t) ==
    IF jobId \in DOMAIN js /\ HasProviderResults(js[jobId])
    THEN LET entry == [status |-> "completed", result |-> result,
                       error |-> Undefined, completedAt |-> t]
             job1 == [js[jobId] EXCEPT !.providerResults = (provider :> entry) @@ @,
                                       !.result = result]
             js1 == [js EXCEPT ![jobId] = job1]
             job2 == IF areAllProvidersCompleted(js1, jobId)
                     THEN [job1 EXCEPT !.status = COMPLETED, !.completedAt = t]
                     ELSE IF job1.status = PENDING
                          THEN [job1 EXCEPT !.status = PROCESSING]
                          ELSE job1
         IN  [js EXCEPT ![jobId] = job2]
    ELSE js

updateProviderResult(js, jobId, provider, result, t) ==
    IF jobId \in DOMAIN js /\ HasProviderResults(js[jobId])
    THEN LET entry == [status |-> "completed", result |-> result,
                       error |-> Undefined, completedAt |-> t]
             job1 == [js[jobId] EXCEPT !.providerResults = (provider :> entry) @@ @]
             js1 == [js EXCEPT ![jobId] = job1]
             job2 == IF areAllProvidersCompleted(js1, jobId)
                     THEN [job1 EXCEPT !.status = COMPLETED, !.completedAt = t]
                     ELSE IF job1.status = PENDING
                          THEN [job1 EXCEPT !.status = PROCESSING]
                          ELSE job1
         IN  [js EXCEPT ![jobId] = job2]
    ELSE js

\* Faulty variant: the failed entry is written without the message.
failProviderResult_noMessage(js, jobId, provider, error, t) ==
    IF jobId \in DOMAIN js /\ HasProviderResults(js[jobId])
    THEN LET entry == [status |-> "failed", result |-> NoResult,
                       error |-> Undefined, completedAt |-> t]
             job1 == [js[jobId] EXCEPT !.providerResults = (provider :> entry) @@ @]
             js1 == [js EXCEPT ![jobId] = job1]
             hasSuccess == \/ EntryStatus(job1, "aws") = "completed"
                           \/ EntryStatus(job1, "deepgram") = "completed"
             job2 == IF areAllProvidersCompleted(js1, jobId)
                     THEN [job1 EXCEPT !.status = IF hasSuccess THEN COMPLETED ELSE FAILED,
                                       !.completedAt = t]
                     ELSE IF job1.status = PENDING
                          THEN [job1 EXCEPT !.status = PROCESSING]
                          ELSE job1
         IN  [js EXCEPT ![jobId] = job2]
    ELSE js

\* Faulty variant: the first provider failure fails the whole job.
failProviderResult_failFast(js, jobId, provider, error, t) ==
    IF jobId \in DOMAIN js /\ HasProviderResults(js[jobId])
    THEN LET entry == [status |-> "failed", result |-> NoResult,
                       error |-> error, completedAt |-> t]
             job1 == [js[jobId] EXCEPT !.providerResults = (provider :> entry) @@ @]
         IN  [js EXCEPT ![jobId] = [job1 EXCEPT !.status = FAILED, !.completedAt = t]]
    ELSE js

failProviderResult(js, jobId, provider, error, t) ==
    IF jobId \in DOMAIN js /\ HasProviderResults(js[jobId])
    THEN LET entry == [status |-> "failed", result |-> NoResult,
                       error |-> error, completedAt |-> t]
             job1 == [js[jobId] EXCEPT !.providerResults = (provider :> entry) @@ @]
             js1 == [js EXCEPT ![jobId] = job1]
             hasSuccess == \/ EntryStatus(job1, "aws") = "completed"
                           \/ EntryStatus(job1, "deepgram") = "completed"
             job2 == IF areAllProvidersCompleted(js1, jobId)
                     THEN [job1 EXCEPT !.status = IF hasSuccess THEN COMPLETED ELSE FAILED,
                                       !.completedAt = t]
                     ELSE IF job1.status = PENDING
                          THEN [job1 EXCEPT !.status = PROCESSING]
                          ELSE job1
         IN  [js EXCEPT ![jobId] = job2]
    ELSE js

completeJob(js, jobId, result, t) ==
    IF jobId \in DOMAIN js
    THEN [js EXCEPT ![jobId].status = COMPLETED,
                    ![jobId].result = result,
                    ![jobId].completedAt = t]
    ELSE js

\* Faulty variant: failJob stamps createdAt as well.
failJob_restamp(js, jobId, error, t) ==
    IF jobId \in DOMAIN js
    THEN [js EXCEPT ![jobId].status = FAILED,
                    ![jobId].error = error,
                    ![jobId].createdAt = t,
                    ![jobId].completedAt = t]
    ELSE js

failJob(js, jobId, error, t) ==
    IF jobId \in DOMAIN js
    THEN [js EXCEPT ![jobId].status = FAILED,
                    ![jobId].error = error,
                    ![jobId].completedAt = t]
    ELSE js

\* ----------------------------------------------------- input of a request
\* The controller passes file.originalname, file.path (unique per upload),
\* the language (default 'en-US') and the Deepgram model (default 'nova-2').
FileName == "audio.mp3"
LanguageCode == "en-US"
DeepgramModel == "nova-2"
FilePath(jobId) == jobId

\* ---------------------------------------------------- TranscriptionService
\* Positions of a job's background task.
\*   none            no request yet
\*   cmpCreated      createComparisonJob done, runCompareTranscriptionsJob not yet entered
\*   cmpWaiting      suspended in await Promise.allSettled([...])
\*   oneCreated      createJob done, runTranscribeWithProviderJob not yet entered
\*   oneWaiting      suspended in await transcribeWithProvider(...)
\*   oneUnlink       completeJob done, about to delete the file (try block)
\*   oneCatch        the delete in the try block threw, about to run the catch block
\*   oneCatchUnlink  failJob done, about to delete the file (catch block)
\*   done            the background task has ended
MidBlock == {"cmpCreated", "oneCreated", "oneUnlink", "oneCatch", "oneCatchUnlink"}

\* A synchronous block is between two of its steps: nothing else runs.
Busy == \E j \in JobIds : pc[j] \in MidBlock

\* The controller's await of the start function is resumed before the next
\* request is handled.
AllReturned == \A j \in JobIds : pc[j] # "none" => returned[j]

\* An outcome that is ready before the controller's continuation runs: in a
\* comparison job DeepgramService.transcribeFile returns the failure shape for an
\* unsupported extension before its first await, so runProviderTranscription
\* resumes ahead of the controller.  Every other outcome arrives in a later
\* turn of the event loop, after the id has been returned.
ReadyAtOnce(j, p, o) ==
    /\ pc[j] = "cmpWaiting"
    /\ p = "deepgram"
    /\ o = ReturnFailed

\* Ghost: count the steps that take a job from a non-terminal to a terminal status.
Observe(js2) ==
    [j \in JobIds |->
        termTrans[j] +
        (IF /\ j \in DOMAIN jobs
            /\ j \in DOMAIN js2
            /\ ~Terminal(jobs[j].status)
            /\ Terminal(js2[j].status)
         THEN 1 ELSE 0)]

\* Faulty variant: the catch block logs the exception and records nothing.
runProviderTranscription_swallow(js, jobId, provider, o, t) ==
    IF o.kind = "return"
    THEN updateProviderResult(js, jobId, provider, o.value, t)
    ELSE js

\* The continuation of runProviderTranscription after the awaited adapter call.
runProviderTranscription(js, jobId, provider, o, t) ==
    IF o.kind = "return"
    THEN updateProviderResult(js, jobId, provider, o.value, t)
    ELSE failProviderResult(js, jobId, provider, o.message, t)

\* Faulty variant: the catch block sets the status and drops the message.
recordSingleOutcome_statusOnly(js, jobId, o, t) ==
    IF o.kind = "return"
    THEN completeJob(js, jobId, o.value, t)
    ELSE updateJobStatus(js, jobId, FAILED)

\* The continuation of runTranscribeWithProviderJob after the awaited call:
\* completeJob in the try block, failJob in the catch block.
recordSingleOutcome(js, jobId, o, t) ==
    IF o.kind = "return"
    THEN completeJob(js, jobId, o.value, t)
    ELSE failJob(js, jobId, o.message, t)

\* Faulty variant: the id derived from the size of the table.
FreshId_bySize == Cardinality(DOMAIN jobs) + 1

\* randomUUID(): an id that was never handed out before.
FreshId == nextId + 1

\* startCompareTranscriptionsAsync, up to the return of createComparisonJob.
StartCompare(j) ==
    /\ ~Busy
    /\ AllReturned
    /\ j = FreshId
    /\ j \in JobIds
    /\ jobs' = createComparisonJob(jobs, j, FileName, FilePath(j), LanguageCode,
                                   DeepgramModel, now)
    /\ nextId' = nextId + 1
    /\ pc' = [pc EXCEPT ![j] = "cmpCreated"]
    /\ file' = [file EXCEPT ![j] = "present"]
    /\ termTrans' = Observe(jobs')
    /\ UNCHANGED <<now, task, outcome, returned, raceFirst, unlinkLog, calls,
                   response, polls, evicted, awsCall,
                   orphan>>

\* Faulty variant: only the aws call is started; deepgram waits for it.
RunCompare_awsFirst(j) ==
    /\ pc[j] = "cmpCreated"
    /\ IF j \in DOMAIN jobs
       THEN /\ jobs' = updateJobStatus(jobs, j, PROCESSING)
            /\ task' = [task EXCEPT ![j]["aws"] = "inflight"]
            /\ calls' = [calls EXCEPT ![j]["aws"] = @ + 1]
            /\ pc' = [pc EXCEPT ![j] = "cmpWaiting"]
       ELSE /\ pc' = [pc EXCEPT ![j] = "done"]
            /\ UNCHANGED <<jobs, task, calls>>
    /\ termTrans' = Observe(jobs')
    /\ UNCHANGED <<nextId, now, outcome, file, returned, raceFirst, unlinkLog,
                   response, polls, evicted, awsCall,
                   orphan>>

\* runCompareTranscriptionsJob up to await Promise.allSettled: both adapter
\* calls are started, then startCompareTranscriptionsAsync returns the id.
RunCompare(j) ==
    /\ pc[j] = "cmpCreated"
    /\ IF j \in DOMAIN jobs
       THEN /\ jobs' = updateJobStatus(jobs, j, PROCESSING)
            /\ task' = [task EXCEPT ![j] = [p \in Providers |-> "inflight"]]
            /\ calls' = [calls EXCEPT ![j] = [p \in Providers |-> @[p] + 1]]
            /\ pc' = [pc EXCEPT ![j] = "cmpWaiting"]
       ELSE /\ pc' = [pc EXCEPT ![j] = "done"]
            /\ UNCHANGED <<jobs, task, calls>>
    /\ termTrans' = Observe(jobs')
    /\ UNCHANGED <<nextId, now, outcome, file, returned, raceFirst, unlinkLog,
                   response, polls, evicted, awsCall,
                   orphan>>

\* An adapter call of a job ends: its promise is fulfilled or rejected.
AdapterSettles(j, p, o) ==
    /\ ~Busy
    /\ AllReturned \/ ReadyAtOnce(j, p, o)
    /\ task[j][p] = "inflight"
    /\ o \in AdapterOutcomes(p)
    /\ task' = [task EXCEPT ![j][p] = "settled"]
    /\ outcome' = [outcome EXCEPT ![j][p] = o]
    /\ UNCHANGED <<jobs, nextId, now, pc, file, returned, termTrans, raceFirst,
                   unlinkLog, calls, response, polls, evicted, awsCall,
                   orphan>>

\* Faulty variant: an adapter call that threw is made once more.
ProviderContinuation_retryOnThrow(j, p) ==
    /\ ~Busy
    /\ AllReturned \/ ReadyAtOnce(j, p, outcome[j][p])
    /\ pc[j] = "cmpWaiting"
    /\ task[j][p] = "settled"
    /\ IF outcome[j][p].kind = "throw" /\ calls[j][p] < 2
       THEN /\ task' = [task EXCEPT ![j][p] = "inflight"]
            /\ calls' = [calls EXCEPT ![j][p] = @ + 1]
            /\ UNCHANGED <<jobs, raceFirst, termTrans>>
       ELSE /\ jobs' = runProviderTranscription(jobs, j, p, outcome[j][p], now)
            /\ task' = [task EXCEPT ![j][p] = "done"]
            /\ raceFirst' = [raceFirst EXCEPT ![j] =
                                IF \E q \in Providers \ {p} : task[j][q] = "settled"
                                THEN p ELSE @]
            /\ termTrans' = Observe(jobs')
            /\ UNCHANGED calls
    /\ UNCHANGED <<nextId, now, pc, outcome, file, returned, unlinkLog,
                   response, polls, evicted, awsCall,
                   orphan>>

\* runProviderTranscription resumes after its await and records the outcome.
ProviderContinuation(j, p) ==
    /\ ~Busy
    /\ AllReturned \/ ReadyAtOnce(j, p, outcome[j][p])
    /\ pc[j] = "cmpWaiting"
    /\ task[j][p] = "settled"
    /\ jobs' = runProviderTranscription(jobs, j, p, outcome[j][p], now)
    /\ task' = [task EXCEPT ![j][p] = "done"]
    /\ raceFirst' = [raceFirst EXCEPT ![j] =
                        IF \E q \in Providers \ {p} : task[j][q] = "settled"
                        THEN p ELSE @]
    /\ termTrans' = Observe(jobs')
    /\ UNCHANGED <<nextId, now, pc, outcome, file, returned, unlinkLog, calls,
                   response, polls, evicted, awsCall,
                   orphan>>

\* Faulty variant: the file is deleted as soon as one provider is through.
CompareCleanup_afterFirst(j, u) ==
    /\ ~Busy
    /\ AllReturned
    /\ pc[j] = "cmpWaiting"
    /\ \E p \in Providers : task[j][p] = "done"
    /\ u \in UnlinkOutcomes
    /\ file' = [file EXCEPT ![j] = IF file[j] = "present" /\ u = "ok"
                                   THEN "deleted" ELSE @]
    /\ unlinkLog' = [unlinkLog EXCEPT ![j] = IF file[j] = "present"
                                             THEN Append(@, u) ELSE @]
    /\ pc' = [pc EXCEPT ![j] = "done"]
    /\ UNCHANGED <<jobs, nextId, now, task, outcome, returned, termTrans, raceFirst,
                   calls, response, polls, evicted, awsCall,
                   orphan>>

\* runCompareTranscriptionsJob resumes after Promise.allSettled and deletes
\* the uploaded file; a throwing unlinkSync rejects the (logged) promise.
CompareCleanup(j, u) ==
    /\ ~Busy
    /\ AllReturned
    /\ pc[j] = "cmpWaiting"
    /\ \A p \in Providers : task[j][p] = "done"
    /\ u \in UnlinkOutcomes
    /\ file' = [file EXCEPT ![j] = IF file[j] = "present" /\ u = "ok"
                                   THEN "deleted" ELSE @]
    /\ unlinkLog' = [unlinkLog EXCEPT ![j] = IF file[j] = "present"
                                             THEN Append(@, u) ELSE @]
    /\ pc' = [pc EXCEPT ![j] = "done"]
    /\ UNCHANGED <<jobs, nextId, now, task, outcome, returned, termTrans, raceFirst,
                   calls, response, polls, evicted, awsCall,
                   orphan>>

\* startTranscribeWithProviderAsync, up to the return of createJob.
StartSingle(j, provider) ==
    /\ ~Busy
    /\ AllReturned
    /\ j = FreshId
    /\ j \in JobIds
    /\ provider \in Providers
    /\ jobs' = createJob(jobs, j, FileName, FilePath(j), LanguageCode, provider,
                         DeepgramModel, now)
    /\ nextId' = nextId + 1
    /\ pc' = [pc EXCEPT ![j] = "oneCreated"]
    /\ file' = [file EXCEPT ![j] = "present"]
    /\ termTrans' = Observe(jobs')
    /\ UNCHANGED <<now, task, outcome, returned, raceFirst, unlinkLog, calls,
                   response, polls, evicted, awsCall,
                   orphan>>

\* runTranscribeWithProviderJob up to await transcribeWithProvider(...).
RunSingle(j) ==
    /\ pc[j] = "oneCreated"
    /\ IF j \in DOMAIN jobs /\ jobs[j].provider # Undefined
       THEN /\ jobs' = updateJobStatus(jobs, j, PROCESSING)
            /\ task' = [task EXCEPT ![j][jobs[j].provider] = "inflight"]
            /\ calls' = [calls EXCEPT ![j][jobs[j].provider] = @ + 1]
            /\ pc' = [pc EXCEPT ![j] = "oneWaiting"]
       ELSE /\ pc' = [pc EXCEPT ![j] = "done"]
            /\ UNCHANGED <<jobs, task, calls>>
    /\ termTrans' = Observe(jobs')
    /\ UNCHANGED <<nextId, now, outcome, file, returned, raceFirst, unlinkLog,
                   response, polls, evicted, awsCall,
                   orphan>>

\* runTranscribeWithProviderJob resumes: completeJob, or failJob in the catch block.
SingleContinuation(j, p) ==
    /\ ~Busy
    /\ AllReturned
    /\ pc[j] = "oneWaiting"
    /\ task[j][p] = "settled"
    /\ jobs' = recordSingleOutcome(jobs, j, outcome[j][p], now)
    /\ task' = [task EXCEPT ![j][p] = "done"]
    /\ pc' = [pc EXCEPT ![j] = IF outcome[j][p].kind = "return"
                               THEN "oneUnlink" ELSE "oneCatchUnlink"]
    /\ termTrans' = Observe(jobs')
    /\ UNCHANGED <<nextId, now, outcome, file, returned, raceFirst, unlinkLog, calls,
                   response, polls, evicted, awsCall,
                   orphan>>

\* try block: if (fs.existsSync(job.filePath)) fs.unlinkSync(job.filePath)
SingleUnlink(j, u) ==
    /\ pc[j] = "oneUnlink"
    /\ u \in UnlinkOutcomes
    /\ file' = [file EXCEPT ![j] = IF file[j] = "present" /\ u = "ok"
                                   THEN "deleted" ELSE @]
    /\ unlinkLog' = [unlinkLog EXCEPT ![j] = IF file[j] = "present"
                                             THEN Append(@, u) ELSE @]
    /\ pc' = [pc EXCEPT ![j] = IF file[j] = "present" /\ u = "throw"
                               THEN "oneCatch" ELSE "done"]
    /\ UNCHANGED <<jobs, nextId, now, task, outcome, returned, termTrans, raceFirst,
                   calls, response, polls, evicted, awsCall,
                   orphan>>

\* catch block entered from the throwing unlinkSync: failJob(jobId, error.message)
SingleCatch(j) ==
    /\ pc[j] = "oneCatch"
    /\ jobs' = failJob(jobs, j, UnlinkMessage, now)
    /\ pc' = [pc EXCEPT ![j] = "oneCatchUnlink"]
    /\ termTrans' = Observe(jobs')
    /\ UNCHANGED <<nextId, now, task, outcome, file, returned, raceFirst, unlinkLog,
                   calls, response, polls, evicted, awsCall,
                   orphan>>

\* Faulty variant: a catch block that leaves the uploaded file alone.
SingleCatchUnlink_noDelete(j, u) ==
    /\ pc[j] = "oneCatchUnlink"
    /\ u \in UnlinkOutcomes
    /\ pc' = [pc EXCEPT ![j] = "done"]
    /\ UNCHANGED <<jobs, nextId, now, task, outcome, file, returned, termTrans,
                   raceFirst, unlinkLog, calls, response, polls, evicted, awsCall,
                   orphan>>

\* catch block: if (fs.existsSync(job.filePath)) fs.unlinkSync(job.filePath)
SingleCatchUnlink(j, u) ==
    /\ pc[j] = "oneCatchUnlink"
    /\ u \in UnlinkOutcomes
    /\ file' = [file EXCEPT ![j] = IF file[j] = "present" /\ u = "ok"
                                   THEN "deleted" ELSE @]
    /\ unlinkLog' = [unlinkLog EXCEPT ![j] = IF file[j] = "present"
                                             THEN Append(@, u) ELSE @]
    /\ pc' = [pc EXCEPT ![j] = "done"]
    /\ UNCHANGED <<jobs, nextId, now, task, outcome, returned, termTrans, raceFirst,
                   calls, response, polls, evicted, awsCall,
                   orphan>>

\* Faulty variant: the start function awaits the background task before it
\* returns the id.
ReturnId_awaitsJob(j) ==
    /\ ~Busy
    /\ pc[j] = "done"
    /\ ~returned[j]
    /\ returned' = [returned EXCEPT ![j] = TRUE]
    /\ UNCHANGED <<jobs, nextId, now, pc, task, outcome, file, termTrans, raceFirst,
                   unlinkLog, calls, response, polls, evicted, awsCall,
                   orphan>>

\* The controller resumes from await start...Async(...) and answers with the id.
ReturnId(j) ==
    /\ ~Busy
    /\ pc[j] # "none"
    /\ ~returned[j]
    /\ returned' = [returned EXCEPT ![j] = TRUE]
    /\ UNCHANGED <<jobs, nextId, now, pc, task, outcome, file, termTrans, raceFirst,
                   unlinkLog, calls, response, polls, evicted, awsCall,
                   orphan>>

\* ------------------------------------------------------- status requests
\* JobManagerService.getJob: Map.get, undefined for an id the table lacks.
getJob(js, jobId) == IF jobId \in DOMAIN js THEN js[jobId] ELSE NoJob

\* Faulty variant: provider entries withheld until the job is terminal.
getJobStatus_hidesPartial(js, jobId) ==
    LET job == getJob(js, jobId) IN
    IF job = NoJob
    THEN [id |-> jobId, found |-> FALSE, job |-> NoJobView]
    ELSE [id |-> jobId, found |-> TRUE,
          job |-> [id |-> job.id, status |-> job.status, fileName |-> job.fileName,
                   languageCode |-> job.languageCode, provider |-> job.provider,
                   result |-> job.result,
                   providerResults |-> IF Terminal(job.status)
                                       THEN job.providerResults
                                       ELSE NoProviderResults,
                   error |-> job.error, createdAt |-> job.createdAt,
                   completedAt |-> job.completedAt]]

\* TranscriptionController.getJobStatus: NotFoundException for a missing job,
\* otherwise the listed fields of the stored record.
getJobStatus(js, jobId) ==
    LET job == getJob(js, jobId) IN
    IF job = NoJob
    THEN [id |-> jobId, found |-> FALSE, job |-> NoJobView]
    ELSE [id |-> jobId, found |-> TRUE,
          job |-> [id |-> job.id, status |-> job.status, fileName |-> job.fileName,
                   languageCode |-> job.languageCode, provider |-> job.provider,
                   result |-> job.result, providerResults |-> job.providerResults,
                   error |-> job.error, createdAt |-> job.createdAt,
                   completedAt |-> job.completedAt]]

\* The answer is about a job that had ended.
TerminalAnswer(r) == r.found /\ Terminal(r.job.status)

\* Faulty variant: the record of a finished job is dropped once it is read.
GetJobStatus_deleteOnRead(j) ==
    /\ ~Busy
    /\ AllReturned
    /\ response' = getJobStatus(jobs, j)
    /\ polls' = IF TerminalAnswer(response')
                THEN IF TerminalAnswer(response) /\ response.id = j
                     THEN IF polls < PollCap THEN polls + 1 ELSE polls
                     ELSE 1
                ELSE 0
    /\ jobs' = IF TerminalAnswer(response')
               THEN [k \in DOMAIN jobs \ {j} |-> jobs[k]]
               ELSE jobs
    /\ UNCHANGED <<nextId, now, pc, task, outcome, file, returned, termTrans,
                   raceFirst, calls, unlinkLog, evicted, awsCall,
                   orphan>>

\* GET job/:jobId, one synchronous handler: it runs between the blocks of the
\* background tasks and holds no await.
GetJobStatus(j) ==
    /\ ~Busy
    /\ AllReturned
    /\ response' = getJobStatus(jobs, j)
    /\ polls' = IF TerminalAnswer(response')
                THEN IF TerminalAnswer(response) /\ response.id = j
                     THEN IF polls < PollCap THEN polls + 1 ELSE polls
                     ELSE 1
                ELSE 0
    /\ UNCHANGED <<jobs, nextId, now, pc, task, outcome, file, returned, termTrans,
                   raceFirst, calls, unlinkLog, evicted, awsCall,
                   orphan>>

\* ------------------------------------------------------ clock and retention
\* 60 * 60 * 1000 ms, in hours.
RetentionWindow == 1

\* Faulty variant: age taken from createdAt, whatever the status.
cleanupOldJobs_byCreatedAt(js, t) ==
    LET oneHourAgo == t - RetentionWindow
        old == {k \in DOMAIN js : js[k].createdAt < oneHourAgo}
    IN  [k \in DOMAIN js \ old |-> js[k]]

\* Faulty variant: the sweep also drops the transcripts of the jobs it keeps.
cleanupOldJobs_stripsResults(js, t) ==
    LET oneHourAgo == t - RetentionWindow
        old == {k \in DOMAIN js :
                   /\ js[k].completedAt # NoDate
                   /\ js[k].completedAt < oneHourAgo
                   /\ js[k].status \in {COMPLETED, FAILED}}
    IN  [k \in DOMAIN js \ old |-> [js[k] EXCEPT !.result = NoResult]]

\* JobManagerService.cleanupOldJobs at time t.
cleanupOldJobs(js, t) ==
    LET oneHourAgo == t - RetentionWindow
        old == {k \in DOMAIN js :
                   /\ js[k].completedAt # NoDate
                   /\ js[k].completedAt < oneHourAgo
                   /\ js[k].status \in {COMPLETED, FAILED}}
    IN  [k \in DOMAIN js \ old |-> js[k]]

\* One call of cleanupOldJobs, between the blocks of the background tasks.
Sweep ==
    /\ ~Busy
    /\ AllReturned
    /\ jobs' = cleanupOldJobs(jobs, now)
    /\ evicted' = evicted \cup (DOMAIN jobs \ DOMAIN jobs')
    /\ UNCHANGED <<nextId, now, pc, task, outcome, file, returned, termTrans,
                   raceFirst, calls, unlinkLog, response, polls, awsCall,
                   orphan>>

\* Nothing is ready to run: every background task is waiting for an adapter
\* call or has ended.
EventLoopIdle ==
    /\ ~Busy
    /\ AllReturned
    /\ \A j \in JobIds :
          /\ \A p \in Providers : task[j][p] # "settled"
          /\ pc[j] = "cmpWaiting" => \E p \in Providers : task[j][p] = "inflight"

\* Date.now() moves on by an hour; whatever is ready to run takes far less
\* than that, so the hour passes while the event loop is idle.
Tick ==
    /\ EventLoopIdle
    /\ now < MaxTime
    /\ now' = now + 1
    /\ UNCHANGED <<jobs, nextId, pc, task, outcome, file, returned, termTrans,
                   raceFirst, calls, unlinkLog, response, polls, evicted, awsCall,
                   orphan>>

\* No background task is under way.
Idle == \A k \in JobIds : pc[k] \in {"none", "done"}

\* POST compare from a client that waits for its previous job to end.
SubmitCompare(j) == Idle /\ StartCompare(j)

\* POST with-provider from a client that waits for its previous job to end.
SubmitSingle(j, provider) == Idle /\ StartSingle(j, provider)

\* What a client may pass as ?provider=: one of the two providers, another
\* name, or nothing.
ProviderInputs == Providers \cup {"google", Undefined}

\* uploadWithProvider for a provider other than 'aws' and 'deepgram': the
\* FileInterceptor has stored the upload, and the handler throws
\* BadRequestException before its try block.
RejectProvider(provider) ==
    /\ ~Busy
    /\ AllReturned
    /\ provider \notin Providers
    /\ orphan' = "present"
    /\ UNCHANGED <<jobs, nextId, now, pc, task, outcome, file, returned, termTrans,
                   raceFirst, calls, unlinkLog, response, polls, evicted, awsCall>>

\* --------------------------------- AwsTranscribeService.transcribeFile
\* TranscriptionJobStatus of the remote job.
RemoteStatus == {"QUEUED", "IN_PROGRESS", "COMPLETED", "FAILED"}

\* A request to S3 or Transcribe is answered or fails.
CallOutcomes == {"ok", "throw"}

\* The object transcribeFile returns for the status its last poll read.
AwsReturn(status) ==
    CASE status = "COMPLETED" -> ReturnCompleted
      [] status = "FAILED" -> ReturnFailed
      [] OTHER -> [kind |-> "return",
                   value |-> [status |-> status, transcript |-> "null", error |-> "null"],
                   message |-> Undefined]

\* The adapter call of job j is awaiting something.
AwsRunning(j) ==
    /\ ~Busy
    /\ AllReturned
    /\ task[j]["aws"] = "inflight"

\* The promise of transcribeFile is rejected: nothing in it catches.
AwsRejects(j) ==
    /\ awsCall' = [awsCall EXCEPT ![j].pc = "thrown"]
    /\ task' = [task EXCEPT ![j]["aws"] = "settled"]
    /\ outcome' = [outcome EXCEPT ![j]["aws"] = Throws]

\* uploadToS3: readFileSync and the PutObject request.
AwsUpload(j, r) ==
    /\ AwsRunning(j)
    /\ awsCall[j].pc = "none"
    /\ IF r = "ok"
       THEN /\ awsCall' = [awsCall EXCEPT ![j].pc = "starting"]
            /\ UNCHANGED <<task, outcome>>
       ELSE AwsRejects(j)
    /\ UNCHANGED <<jobs, nextId, now, pc, file, returned, termTrans, raceFirst,
                   calls, unlinkLog, response, polls, evicted,
                   orphan>>

\* startTranscription: the StartTranscriptionJob request.
AwsStart(j, r) ==
    /\ AwsRunning(j)
    /\ awsCall[j].pc = "starting"
    /\ IF r = "ok"
       THEN /\ awsCall' = [awsCall EXCEPT ![j] = [pc |-> "sleeping", remote |-> "QUEUED"]]
            /\ UNCHANGED <<task, outcome>>
       ELSE AwsRejects(j)
    /\ UNCHANGED <<jobs, nextId, now, pc, file, returned, termTrans, raceFirst,
                   calls, unlinkLog, response, polls, evicted,
                   orphan>>

\* The 5 s timer of the polling loop fires.
AwsWake(j) ==
    /\ AwsRunning(j)
    /\ awsCall[j].pc = "sleeping"
    /\ awsCall' = [awsCall EXCEPT ![j].pc = "polling"]
    /\ UNCHANGED <<jobs, nextId, now, pc, task, outcome, file, returned, termTrans,
                   raceFirst, calls, unlinkLog, response, polls, evicted,
                   orphan>>

\* getTranscriptionResult answers; the loop goes on while the status read is
\* IN_PROGRESS and transcribeFile returns on any other status.
AwsPoll(j, r) ==
    /\ AwsRunning(j)
    /\ awsCall[j].pc = "polling"
    /\ IF r = "ok"
       THEN IF awsCall[j].remote = "IN_PROGRESS"
            THEN /\ awsCall' = [awsCall EXCEPT ![j].pc = "sleeping"]
                 /\ UNCHANGED <<task, outcome>>
            ELSE /\ awsCall' = [awsCall EXCEPT ![j].pc = "returned"]
                 /\ task' = [task EXCEPT ![j]["aws"] = "settled"]
                 /\ outcome' = [outcome EXCEPT ![j]["aws"] = AwsReturn(awsCall[j].remote)]
       ELSE AwsRejects(j)
    /\ UNCHANGED <<jobs, nextId, now, pc, file, returned, termTrans, raceFirst,
                   calls, unlinkLog, response, polls, evicted,
                   orphan>>

\* AWS Transcribe moves the remote job on.
RemoteAdvance(j, st) ==
    /\ ~Busy
    /\ \/ awsCall[j].remote = "QUEUED" /\ st = "IN_PROGRESS"
       \/ awsCall[j].remote = "IN_PROGRESS" /\ st \in {"COMPLETED", "FAILED"}
    /\ awsCall' = [awsCall EXCEPT ![j].remote = st]
    /\ UNCHANGED <<jobs, nextId, now, pc, task, outcome, file, returned, termTrans,
                   raceFirst, calls, unlinkLog, response, polls, evicted,
                   orphan>>

\* ------------------------------------------- the job store on its own
\* The public methods of JobManagerService, called by any caller with any
\* arguments at any time.
StoreResults == {ReturnCompleted.value, ReturnFailed.value}

StoreErrors == {Throws.message, UnlinkMessage}

CallCreateJob(j, provider) ==
    /\ j = FreshId
    /\ jobs' = createJob(jobs, j, FileName, FilePath(j), LanguageCode, provider,
                         DeepgramModel, now)
    /\ nextId' = nextId + 1
    /\ UNCHANGED <<now, pc, task, outcome, file, returned, termTrans,
                   raceFirst, calls, unlinkLog, response, polls, evicted, awsCall,
                   orphan>>

CallCreateComparisonJob(j) ==
    /\ j = FreshId
    /\ jobs' = createComparisonJob(jobs, j, FileName, FilePath(j), LanguageCode,
                                   DeepgramModel, now)
    /\ nextId' = nextId + 1
    /\ UNCHANGED <<now, pc, task, outcome, file, returned, termTrans,
                   raceFirst, calls, unlinkLog, response, polls, evicted, awsCall,
                   orphan>>

CallUpdateJobStatus(j, status) ==
    /\ jobs' = updateJobStatus(jobs, j, status)
    /\ UNCHANGED <<nextId, now, pc, task, outcome, file, returned, termTrans,
                   raceFirst, calls, unlinkLog, response, polls, evicted, awsCall,
                   orphan>>

CallUpdateProviderResult(j, provider, result) ==
    /\ jobs' = updateProviderResult(jobs, j, provider, result, now)
    /\ UNCHANGED <<nextId, now, pc, task, outcome, file, returned, termTrans,
                   raceFirst, calls, unlinkLog, response, polls, evicted, awsCall,
                   orphan>>

CallFailProviderResult(j, provider, error) ==
    /\ jobs' = failProviderResult(jobs, j, provider, error, now)
    /\ UNCHANGED <<nextId, now, pc, task, outcome, file, returned, termTrans,
                   raceFirst, calls, unlinkLog, response, polls, evicted, awsCall,
                   orphan>>

CallCompleteJob(j, result) ==
    /\ jobs' = completeJob(jobs, j, result, now)
    /\ UNCHANGED <<nextId, now, pc, task, outcome, file, returned, termTrans,
                   raceFirst, calls, unlinkLog, response, polls, evicted, awsCall,
                   orphan>>

CallFailJob(j, error) ==
    /\ jobs' = failJob(jobs, j, error, now)
    /\ UNCHANGED <<nextId, now, pc, task, outcome, file, returned, termTrans,
                   raceFirst, calls, unlinkLog, response, polls, evicted, awsCall,
                   orphan>>

\* GET job/:jobId for an id the store does not hold.
AskMissing(j) == j \notin DOMAIN jobs /\ GetJobStatus(j)

Init ==
    /\ jobs = [j \in {} |-> Undefined]
    /\ nextId = 0
    /\ now = 0
    /\ pc = [j \in JobIds |-> "none"]
    /\ task = [j \in JobIds |-> [p \in Providers |-> "none"]]
    /\ outcome = [j \in JobIds |-> [p \in Providers |-> NoOutcome]]
    /\ file = [j \in JobIds |-> "none"]
    /\ returned = [j \in JobIds |-> FALSE]
    /\ termTrans = [j \in JobIds |-> 0]
    /\ raceFirst = [j \in JobIds |-> "none"]
    /\ calls = [j \in JobIds |-> [p \in Providers |-> 0]]
    /\ unlinkLog = [j \in JobIds |-> <<>>]
    /\ response = NoResponse
    /\ polls = 0
    /\ evicted = {}
    /\ awsCall = [j \in JobIds |-> [pc |-> "none", remote |-> "none"]]
    /\ orphan = "none"

Next ==
    \/ \E j \in JobIds : StartCompare(j)
    \/ \E j \in JobIds : RunCompare(j)
    \/ \E j \in JobIds, p \in Providers, o \in AwsOutcomes \cup DeepgramOutcomes :
          AdapterSettles(j, p, o)
    \/ \E j \in JobIds, p \in Providers : ProviderContinuation(j, p)
    \/ \E j \in JobIds, u \in UnlinkOutcomes : CompareCleanup(j, u)
    \/ \E j \in JobIds, p \in Providers : StartSingle(j, p)
    \/ \E j \in JobIds : RunSingle(j)
    \/ \E j \in JobIds, p \in Providers : SingleContinuation(j, p)
    \/ \E j \in JobIds, u \in UnlinkOutcomes : SingleUnlink(j, u)
    \/ \E j \in JobIds : SingleCatch(j)
    \/ \E j \in JobIds, u \in UnlinkOutcomes : SingleCatchUnlink(j, u)
    \/ \E j \in JobIds : ReturnId(j)

Spec == Init /\ [][Next]_vars

\* The event loop runs every continuation that is ready, and every adapter
\* call that was started comes back, fulfilled or rejected.
Fairness ==
    \A j \in JobIds :
        /\ WF_vars(RunCompare(j))
        /\ WF_vars(RunSingle(j))
        /\ WF_vars(ReturnId(j))
        /\ WF_vars(SingleCatch(j))
        /\ WF_vars(\E u \in UnlinkOutcomes : CompareCleanup(j, u))
        /\ WF_vars(\E u \in UnlinkOutcomes : SingleUnlink(j, u))
        /\ WF_vars(\E u \in UnlinkOutcomes : SingleCatchUnlink(j, u))
        /\ \A p \in Providers :
              /\ WF_vars(\E o \in AdapterOutcomes(p) : AdapterSettles(j, p, o))
              /\ WF_vars(ProviderContinuation(j, p))
              /\ WF_vars(SingleContinuation(j, p))

SpecLive == Init /\ [][Next]_vars /\ Fairness

\* The program with the AWS adapter call taken step by step.
NextAws ==
    \/ \E j \in 1..MaxAwsJobs : StartCompare(j)
    \/ \E j \in JobIds : RunCompare(j)
    \/ \E j \in JobIds, o \in DeepgramOutcomes : AdapterSettles(j, "deepgram", o)
    \/ \E j \in JobIds, p \in Providers : ProviderContinuation(j, p)
    \/ \E j \in JobIds, u \in UnlinkOutcomes : CompareCleanup(j, u)
    \/ \E j \in 1..MaxAwsJobs, p \in Providers : StartSingle(j, p)
    \/ \E j \in JobIds : RunSingle(j)
    \/ \E j \in JobIds, p \in Providers : SingleContinuation(j, p)
    \/ \E j \in JobIds, u \in UnlinkOutcomes : SingleUnlink(j, u)
    \/ \E j \in JobIds : SingleCatch(j)
    \/ \E j \in JobIds, u \in UnlinkOutcomes : SingleCatchUnlink(j, u)
    \/ \E j \in JobIds : ReturnId(j)
    \/ \E j \in JobIds, r \in CallOutcomes : AwsUpload(j, r)
    \/ \E j \in JobIds, r \in CallOutcomes : AwsStart(j, r)
    \/ \E j \in JobIds : AwsWake(j)
    \/ \E j \in JobIds, r \in CallOutcomes : AwsPoll(j, r)
    \/ \E j \in JobIds, st \in RemoteStatus : RemoteAdvance(j, st)

SpecAws == Init /\ [][NextAws]_vars

\* The event loop runs every ready continuation, every request to Deepgram,
\* S3 or Transcribe is answered or fails, and the timer fires; whether the
\* remote transcription job ever moves on is left open.
FairnessAws ==
    \A j \in JobIds :
        /\ WF_vars(RunCompare(j))
        /\ WF_vars(RunSingle(j))
        /\ WF_vars(ReturnId(j))
        /\ WF_vars(SingleCatch(j))
        /\ WF_vars(\E u \in UnlinkOutcomes : CompareCleanup(j, u))
        /\ WF_vars(\E u \in UnlinkOutcomes : SingleUnlink(j, u))
        /\ WF_vars(\E u \in UnlinkOutcomes : SingleCatchUnlink(j, u))
        /\ WF_vars(\E o \in DeepgramOutcomes : AdapterSettles(j, "deepgram", o))
        /\ WF_vars(\E r \in CallOutcomes : AwsUpload(j, r))
        /\ WF_vars(\E r \in CallOutcomes : AwsStart(j, r))
        /\ WF_vars(AwsWake(j))
        /\ WF_vars(\E r \in CallOutcomes : AwsPoll(j, r))
        /\ \A p \in Providers :
              /\ WF_vars(ProviderContinuation(j, p))
              /\ WF_vars(SingleContinuation(j, p))

SpecAwsLive == Init /\ [][NextAws]_vars /\ FairnessAws

\* The program with the requests that uploadWithProvider turns away.
NextUpload ==
    \/ \E j \in JobIds : StartCompare(j)
    \/ \E j \in JobIds : RunCompare(j)
    \/ \E j \in JobIds, p \in Providers, o \in AwsOutcomes \cup DeepgramOutcomes :
          AdapterSettles(j, p, o)
    \/ \E j \in JobIds, p \in Providers : ProviderContinuation(j, p)
    \/ \E j \in JobIds, u \in UnlinkOutcomes : CompareCleanup(j, u)
    \/ \E j \in JobIds, p \in Providers : StartSingle(j, p)
    \/ \E j \in JobIds : RunSingle(j)
    \/ \E j \in JobIds, p \in Providers : SingleContinuation(j, p)
    \/ \E j \in JobIds, u \in UnlinkOutcomes : SingleUnlink(j, u)
    \/ \E j \in JobIds : SingleCatch(j)
    \/ \E j \in JobIds, u \in UnlinkOutcomes : SingleCatchUnlink(j, u)
    \/ \E j \in JobIds : ReturnId(j)
    \/ \E p \in ProviderInputs : RejectProvider(p)

SpecUpload == Init /\ [][NextUpload]_vars

\* JobManagerService alone, under a running clock.
NextStore ==
    \/ \E j \in 1..MaxStoreJobs, p \in Providers : CallCreateJob(j, p)
    \/ \E j \in 1..MaxStoreJobs : CallCreateComparisonJob(j)
    \/ \E j \in JobIds, st \in JobStatus : CallUpdateJobStatus(j, st)
    \/ \E j \in JobIds, p \in Providers, r \in StoreResults :
          CallUpdateProviderResult(j, p, r)
    \/ \E j \in JobIds, p \in Providers, e \in StoreErrors :
          CallFailProviderResult(j, p, e)
    \/ \E j \in JobIds, r \in StoreResults : CallCompleteJob(j, r)
    \/ \E j \in JobIds, e \in StoreErrors : CallFailJob(j, e)
    \/ Tick

SpecStore == Init /\ [][NextStore]_vars

\* The program together with clients polling GET job/:jobId.
NextQuery ==
    \/ \E j \in 1..MaxQueryJobs : StartCompare(j)
    \/ \E j \in JobIds : RunCompare(j)
    \/ \E j \in JobIds, p \in Providers, o \in AwsOutcomes \cup DeepgramOutcomes :
          AdapterSettles(j, p, o)
    \/ \E j \in JobIds, p \in Providers : ProviderContinuation(j, p)
    \/ \E j \in JobIds, u \in UnlinkOutcomes : CompareCleanup(j, u)
    \/ \E j \in 1..MaxQueryJobs, p \in Providers : StartSingle(j, p)
    \/ \E j \in JobIds : RunSingle(j)
    \/ \E j \in JobIds, p \in Providers : SingleContinuation(j, p)
    \/ \E j \in JobIds, u \in UnlinkOutcomes : SingleUnlink(j, u)
    \/ \E j \in JobIds : SingleCatch(j)
    \/ \E j \in JobIds, u \in UnlinkOutcomes : SingleCatchUnlink(j, u)
    \/ \E j \in JobIds : ReturnId(j)
    \/ \E j \in JobIds : GetJobStatus(j)

SpecQuery == Init /\ [][NextQuery]_vars

\* The program under a running clock, as the sources have it: nothing in them
\* calls cleanupOldJobs.
NextClock ==
    \/ \E j \in 1..MaxSweepJobs : SubmitCompare(j)
    \/ \E j \in JobIds : RunCompare(j)
    \/ \E j \in JobIds, p \in Providers, o \in AwsOutcomes \cup DeepgramOutcomes :
          AdapterSettles(j, p, o)
    \/ \E j \in JobIds, p \in Providers : ProviderContinuation(j, p)
    \/ \E j \in JobIds, u \in UnlinkOutcomes : CompareCleanup(j, u)
    \/ \E j \in 1..MaxSweepJobs, p \in Providers : SubmitSingle(j, p)
    \/ \E j \in JobIds : RunSingle(j)
    \/ \E j \in JobIds, p \in Providers : SingleContinuation(j, p)
    \/ \E j \in JobIds, u \in UnlinkOutcomes : SingleUnlink(j, u)
    \/ \E j \in JobIds : SingleCatch(j)
    \/ \E j \in JobIds, u \in UnlinkOutcomes : SingleCatchUnlink(j, u)
    \/ \E j \in JobIds : ReturnId(j)
    \/ Tick

SpecClock == Init /\ [][NextClock]_vars

\* The program under a running clock, with cleanupOldJobs called at arbitrary
\* moments and clients asking for jobs that the store does not hold.
NextSweep ==
    \/ \E j \in 1..MaxSweepJobs : SubmitCompare(j)
    \/ \E j \in JobIds : RunCompare(j)
    \/ \E j \in JobIds, p \in Providers, o \in AwsOutcomes \cup DeepgramOutcomes :
          AdapterSettles(j, p, o)
    \/ \E j \in JobIds, p \in Providers : ProviderContinuation(j, p)
    \/ \E j \in JobIds, u \in UnlinkOutcomes : CompareCleanup(j, u)
    \/ \E j \in 1..MaxSweepJobs, p \in Providers : SubmitSingle(j, p)
    \/ \E j \in JobIds : RunSingle(j)
    \/ \E j \in JobIds, p \in Providers : SingleContinuation(j, p)
    \/ \E j \in JobIds, u \in UnlinkOutcomes : SingleUnlink(j, u)
    \/ \E j \in JobIds : SingleCatch(j)
    \/ \E j \in JobIds, u \in UnlinkOutcomes : SingleCatchUnlink(j, u)
    \/ \E j \in JobIds : ReturnId(j)
    \/ Tick
    \/ Sweep
    \/ \E j \in JobIds : AskMissing(j)

SpecSweep == Init /\ [][NextSweep]_vars

TypeOK ==
    /\ DOMAIN jobs \subseteq JobIds
    /\ \A j \in DOMAIN jobs : jobs[j].status \in JobStatus
    /\ nextId \in 0..MaxJobs

\* ============================================================ properties
IsComparison(j) == j \in DOMAIN jobs /\ HasProviderResults(jobs[j])

IsSingle(j) == j \in DOMAIN jobs /\ ~HasProviderResults(jobs[j])

AllTasksDone(j) == \A p \in Providers : task[j][p] = "done"

\* The adapter call ended in failure: a failure-shaped object or an exception.
IsFailure(o) ==
    \/ o.kind = "throw"
    \/ o.kind = "return" /\ o.value.status = "FAILED"

FailureMessage(o) == IF o.kind = "throw" THEN o.message ELSE o.value.error

\* pending < processing < {completed, failed}
Rank(status) ==
    CASE status = PENDING -> 0
      [] status = PROCESSING -> 1
      [] OTHER -> 2

\* The recorded outcome of a provider entry (its timestamp left aside).
EntryOutcome(entry) == <<entry.status, entry.result, entry.error>>

\* C1: a comparison job's status is terminal if and only if both of its
\* providerResults entries are terminal.
C1_TerminalIffAllProvidersTerminal ==
    \A j \in DOMAIN jobs :
        IsComparison(j) =>
            (Terminal(jobs[j].status) <=>
                \A p \in Providers : TerminalEntry(EntryStatus(jobs[j], p)))

C1_Witness ==
    \E j \in DOMAIN jobs :
        /\ IsComparison(j)
        /\ Terminal(jobs[j].status)
        /\ \A p \in Providers : TerminalEntry(EntryStatus(jobs[j], p))
        /\ AllTasksDone(j)

\* C2: a terminal comparison job is completed exactly when some entry is
\* completed, and failed exactly when every entry is failed.
C2_CompletedIffSomeSuccess ==
    \A j \in DOMAIN jobs :
        (IsComparison(j) /\ Terminal(jobs[j].status)) =>
            /\ jobs[j].status = COMPLETED <=>
                  \E p \in Providers : EntryStatus(jobs[j], p) = "completed"
            /\ jobs[j].status = FAILED <=>
                  \A p \in Providers : EntryStatus(jobs[j], p) = "failed"

C2_Witness ==
    \E j \in DOMAIN jobs :
        /\ IsComparison(j)
        /\ jobs[j].status = COMPLETED
        /\ EntryStatus(jobs[j], "aws") = "failed"
        /\ EntryStatus(jobs[j], "deepgram") = "completed"

\* C3: in a comparison job, a provider whose adapter call ended in failure
\* (failure-shaped return value or exception) is recorded with status failed
\* and its error message, never with status completed.
C3_FailureRecordedAsFailed ==
    \A j \in DOMAIN jobs :
        IsComparison(j) =>
            \A p \in Providers :
                (task[j][p] = "done" /\ IsFailure(outcome[j][p])) =>
                    /\ jobs[j].providerResults[p].status = "failed"
                    /\ jobs[j].providerResults[p].error = FailureMessage(outcome[j][p])

\* C4: a comparison job in which both providers failed to produce a transcript
\* ends with status failed.
C4_BothFailJobFailed ==
    \A j \in DOMAIN jobs :
        (/\ IsComparison(j)
         /\ AllTasksDone(j)
         /\ \A p \in Providers : IsFailure(outcome[j][p])) =>
            jobs[j].status = FAILED

\* C5: the status of a job never decreases under
\* pending < processing < {completed, failed}.
C5_StatusMonotonic ==
    [][\A j \in DOMAIN jobs :
          j \in DOMAIN jobs' => Rank(jobs'[j].status) >= Rank(jobs[j].status)]_vars

C5_Witness ==
    \E j \in DOMAIN jobs :
        /\ IsSingle(j)
        /\ pc[j] = "done"
        /\ jobs[j].status = COMPLETED

\* C6: once a job is completed or failed, no later step changes its status,
\* result, error, providerResults or completedAt.
C6_TerminalJobImmutable ==
    [][\A j \in DOMAIN jobs :
          Terminal(jobs[j].status) =>
              /\ j \in DOMAIN jobs'
              /\ jobs'[j].status = jobs[j].status
              /\ jobs'[j].result = jobs[j].result
              /\ jobs'[j].error = jobs[j].error
              /\ jobs'[j].providerResults = jobs[j].providerResults
              /\ jobs'[j].completedAt = jobs[j].completedAt]_vars

\* C7: completedAt is set if and only if the status is completed or failed.
C7_CompletedAtIffTerminal ==
    \A j \in DOMAIN jobs :
        (jobs[j].completedAt # NoDate) <=> Terminal(jobs[j].status)

C7_Witness ==
    \E j \in DOMAIN jobs :
        /\ IsSingle(j)
        /\ jobs[j].status = FAILED
        /\ jobs[j].completedAt # NoDate

\* C8: however the two completions of a comparison job interleave, every
\* recorded provider has a terminal entry (no lost update) and the job enters
\* a terminal status exactly once.
C8_NoLostUpdate ==
    \A j \in DOMAIN jobs :
        IsComparison(j) =>
            /\ \A p \in Providers :
                  task[j][p] = "done" => TerminalEntry(EntryStatus(jobs[j], p))
            /\ termTrans[j] <= 1
            /\ AllTasksDone(j) => (termTrans[j] = 1 /\ Terminal(jobs[j].status))

C8_Witness ==
    \E j \in DOMAIN jobs :
        /\ IsComparison(j)
        /\ raceFirst[j] # "none"
        /\ AllTasksDone(j)
        /\ termTrans[j] = 1
        /\ \A p \in Providers : TerminalEntry(EntryStatus(jobs[j], p))

\* C9: two comparison jobs whose providers ended in the same outcomes have
\* the same final status and the same recorded provider outcomes, whichever
\* provider was recorded first.
C9_RecordingCommutes ==
    \A j1 \in DOMAIN jobs, j2 \in DOMAIN jobs :
        (/\ IsComparison(j1) /\ IsComparison(j2)
         /\ AllTasksDone(j1) /\ AllTasksDone(j2)
         /\ outcome[j1] = outcome[j2]) =>
            /\ jobs[j1].status = jobs[j2].status
            /\ DOMAIN jobs[j1].providerResults = DOMAIN jobs[j2].providerResults
            /\ \A p \in Providers :
                  EntryOutcome(jobs[j1].providerResults[p]) =
                  EntryOutcome(jobs[j2].providerResults[p])

C9_Witness ==
    \E j1 \in DOMAIN jobs, j2 \in DOMAIN jobs :
        /\ IsComparison(j1) /\ IsComparison(j2)
        /\ AllTasksDone(j1) /\ AllTasksDone(j2)
        /\ outcome[j1] = outcome[j2]
        /\ outcome[j1]["aws"] = Throws
        /\ raceFirst[j1] = "aws"
        /\ raceFirst[j2] = "deepgram"

\* C10: once the start function has launched the background task, handing the
\* id to the caller does not wait for any adapter call, and the job is in the
\* store when the id is handed over.
C10_ReturnsWithoutWaiting ==
    \A j \in JobIds :
        /\ (pc[j] # "none" /\ ~returned[j] /\ ~Busy) =>
              (ENABLED ReturnId(j) /\ j \in DOMAIN jobs)
        /\ returned[j] => j \in DOMAIN jobs

C10_Witness ==
    \E j \in DOMAIN jobs :
        /\ returned[j]
        /\ \E p \in Providers : task[j][p] = "inflight"
        /\ \A p \in Providers : task[j][p] \in {"none", "inflight"}
        /\ jobs[j].status = PROCESSING

\* C11: a status request is answered in every quiet state, whatever the provider
\* tasks are doing, and the answer carries the stored record as it stands; for
\* a comparison job in progress it shows the settled provider's entry next to
\* the pending entry of the provider still running.
C11_QueryShowsCurrentRecord ==
    (~Busy /\ AllReturned) =>
        \A j \in JobIds :
            ENABLED (/\ GetJobStatus(j)
                     /\ response'.id = j
                     /\ response'.found = (j \in DOMAIN jobs)
                     /\ j \in DOMAIN jobs =>
                            /\ response'.job.status = jobs[j].status
                            /\ response'.job.providerResults = jobs[j].providerResults
                            /\ response'.job.result = jobs[j].result
                            /\ response'.job.error = jobs[j].error
                            /\ response'.job.completedAt = jobs[j].completedAt)

C11_Witness ==
    /\ response.found
    /\ response.job.status = PROCESSING
    /\ DOMAIN response.job.providerResults = Providers
    /\ \E p, q \in Providers :
          /\ TerminalEntry(response.job.providerResults[p].status)
          /\ response.job.providerResults[q].status = "pending"
          /\ task[response.id][q] = "inflight"

\* C12: a status request leaves the job store as it was, and a request for an
\* ended job that follows a request for the same job gets the same answer.
C12_QueryIdempotent ==
    [][(response' # response \/ polls' # polls) =>
          /\ jobs' = jobs
          /\ (TerminalAnswer(response) /\ response'.id = response.id)
                => response' = response]_vars

C12_Witness ==
    /\ polls = 2
    /\ TerminalAnswer(response)
    /\ response = getJobStatus(jobs, response.id)

\* A job that ended more than the retention window ago.
OldTerminal(j) ==
    /\ Terminal(jobs[j].status)
    /\ now - jobs[j].completedAt > RetentionWindow

\* C13: a sweep removes exactly the completed or failed jobs whose completedAt
\* is older than the retention window: each of them is absent afterwards, and
\* every pending or processing job, whatever its age, and every ended job
\* inside the window is still there, unchanged.
C13_SweepRemovesExactlyOldTerminal ==
    (~Busy /\ AllReturned) =>
        ENABLED (/\ Sweep
                 /\ DOMAIN jobs' = {j \in DOMAIN jobs : ~OldTerminal(j)}
                 /\ \A j \in DOMAIN jobs' : jobs'[j] = jobs[j])

C13_Witness ==
    /\ evicted # {}
    /\ evicted \cap DOMAIN jobs = {}
    /\ \E j \in DOMAIN jobs :
          /\ ~Terminal(jobs[j].status)
          /\ now - jobs[j].createdAt > RetentionWindow

\* C14: the sweep runs every hour, so an ended job is gone from the store by
\* the time its completedAt is two hours old (the retention window and one
\* sweep period).
C14_TerminalJobsSwept ==
    \A j \in DOMAIN jobs :
        Terminal(jobs[j].status) =>
            now - jobs[j].completedAt <= RetentionWindow + RetentionWindow

\* C15: an id that was never handed out, or whose job a sweep has removed, is
\* not in the store, a status request for it is answered not-found, and no
\* later step puts a removed id back.
C15_UnknownOrEvictedNotFound ==
    \A j \in JobIds :
        (j \in evicted \/ j > nextId) =>
            /\ j \notin DOMAIN jobs
            /\ (~Busy /\ AllReturned) =>
                   ENABLED (GetJobStatus(j) /\ ~response'.found)

C15_Witness ==
    /\ response.id \in evicted
    /\ ~response.found
    /\ \E k \in DOMAIN jobs : k > response.id /\ jobs[k].createdAt > 0

OwnOutcomeRecorded(j, q) ==
    LET entry == jobs[j].providerResults[q]
        o == outcome[j][q]
    IN  IF o.kind = "throw"
        THEN entry.status = "failed" /\ entry.error = o.message
        ELSE entry.status = "completed" /\ entry.result = o.value

\* C17: in a comparison job, once one provider has failed (a returned failure
\* or an exception) and that is recorded, the sibling's task still goes on: its
\* adapter call can settle with any outcome, its continuation can run, its own
\* outcome is what its entry ends up holding, and the job is not terminal as
\* long as the sibling is unsettled.
C17_FailureLeavesSiblingAlone ==
    \A j \in JobIds : \A p \in Providers : \A q \in Providers \ {p} :
        (IsComparison(j) /\ task[j][p] = "done" /\ IsFailure(outcome[j][p])) =>
            /\ task[j][q] # "none"
            /\ task[j][q] # "done" => ~Terminal(jobs[j].status)
            /\ (task[j][q] = "inflight" /\ ~Busy /\ AllReturned) =>
                   \A o \in AdapterOutcomes(q) : ENABLED AdapterSettles(j, q, o)
            /\ (task[j][q] = "settled" /\ ~Busy /\ AllReturned) =>
                   ENABLED ProviderContinuation(j, q)
            /\ task[j][q] = "done" => OwnOutcomeRecorded(j, q)

C17_Witness ==
    \E j \in JobIds :
        /\ IsComparison(j)
        /\ task[j]["aws"] = "done"
        /\ outcome[j]["aws"] = Throws
        /\ jobs[j].providerResults["aws"].status = "failed"
        /\ task[j]["deepgram"] = "inflight"
        /\ jobs[j].providerResults["deepgram"].status = "pending"
        /\ jobs[j].status = PROCESSING

\* C18: a single-provider job whose adapter call threw is failed from the
\* moment the exception is handled to the end of its task, its error is the
\* exception's message and it has no result.
C18_SingleThrowFailsJob ==
    \A j \in JobIds :
        (IsSingle(j) /\ task[j][jobs[j].provider] = "done"
                     /\ outcome[j][jobs[j].provider].kind = "throw") =>
            /\ jobs[j].status = FAILED
            /\ jobs[j].error = outcome[j][jobs[j].provider].message
            /\ jobs[j].result = NoResult

C18_Witness ==
    \E j \in JobIds :
        /\ IsSingle(j)
        /\ pc[j] = "done"
        /\ outcome[j]["aws"] = Throws
        /\ jobs[j].status = FAILED
        /\ jobs[j].error = Throws.message
        /\ jobs[j].completedAt # NoDate

\* C19: when the task of a single-provider job has ended, the job is completed
\* exactly when its adapter call was a success and failed exactly when the call
\* was a failure (a returned failure shape or an exception).
C19_SingleStatusFollowsOutcome ==
    \A j \in JobIds :
        (IsSingle(j) /\ pc[j] = "done") =>
            LET o == outcome[j][jobs[j].provider] IN
            /\ jobs[j].status = COMPLETED <=> ~IsFailure(o)
            /\ jobs[j].status = FAILED <=> IsFailure(o)

\* C20: an adapter is called once for each provider a job asks for, when the
\* job's task starts, and never again: the count is 0 before the call and 1
\* from then on, whatever the outcomes; a provider the job does not ask for is
\* never called.
C20_EachAdapterInvokedOnce ==
    \A j \in JobIds : \A p \in Providers :
        /\ calls[j][p] = (IF task[j][p] = "none" THEN 0 ELSE 1)
        /\ pc[j] \in {"cmpWaiting", "oneWaiting", "oneUnlink", "oneCatch",
                      "oneCatchUnlink", "done"} =>
              calls[j][p] = (IF IsComparison(j) \/ jobs[j].provider = p THEN 1 ELSE 0)

C20_Witness ==
    \E j \in JobIds :
        /\ IsComparison(j)
        /\ pc[j] = "done"
        /\ outcome[j]["aws"] = Throws
        /\ outcome[j]["deepgram"] = ReturnFailed
        /\ calls[j] = [p \in Providers |-> 1]

\* C21: if every adapter call that was started comes back, every job in the
\* store gets to completed or failed; no job is left pending or processing.
C21_EveryJobEnds ==
    \A j \in JobIds : (j \in DOMAIN jobs) ~> (j \in DOMAIN jobs /\ Terminal(jobs[j].status))

C21_Witness ==
    /\ nextId = MaxJobs
    /\ \A j \in JobIds :
          /\ j \in DOMAIN jobs
          /\ Terminal(jobs[j].status)
          /\ pc[j] = "done"
    /\ \E j \in JobIds : IsComparison(j) /\ outcome[j]["aws"] = Throws
    /\ \E j \in JobIds : IsSingle(j) /\ jobs[j].status = FAILED

\* C22: a provider task is bounded by a timeout, so a job that is processing
\* gets to completed or failed even if the remote transcription job never
\* reaches a final state.
C22_ProcessingJobEnds ==
    \A j \in JobIds :
        (j \in DOMAIN jobs /\ jobs[j].status = PROCESSING)
            ~> (j \in DOMAIN jobs /\ Terminal(jobs[j].status))

\* C23: no adapter call ends in an exception: every failure comes back as a
\* failure-shaped object.
C23_AdaptersNeverThrow ==
    \A j \in JobIds : \A p \in Providers : outcome[j][p].kind # "throw"

\* C24: a write to what is already terminal changes nothing: a step of the
\* store leaves the status and completedAt of a terminal job, and every
\* terminal provider entry, as they were.
C24_TerminalWritesIdempotent ==
    [][\A j \in DOMAIN jobs \cap DOMAIN jobs' :
          /\ Terminal(jobs[j].status) =>
                /\ jobs'[j].status = jobs[j].status
                /\ jobs'[j].completedAt = jobs[j].completedAt
          /\ \A p \in DOMAIN jobs[j].providerResults :
                TerminalEntry(jobs[j].providerResults[p].status) =>
                    jobs'[j].providerResults[p] = jobs[j].providerResults[p]]_vars

\* C25: a comparison job is pending until the first provider outcome is
\* recorded: it is never processing while both of its entries are pending.
C25_ProcessingOnFirstOutcome ==
    \A j \in JobIds :
        (IsComparison(j) /\ jobs[j].status = PROCESSING) =>
            \E p \in Providers : jobs[j].providerResults[p].status # "pending"

\* C26: fs.unlinkSync is called on the uploaded file of a job only when every
\* provider task of the job is through: both tasks of a comparison job, the one
\* adapter call of a single-provider job.
C26_DeleteAfterAllSettled ==
    \A j \in JobIds :
        (unlinkLog[j] # <<>> \/ file[j] = "deleted") =>
            /\ j \in DOMAIN jobs
            /\ IsComparison(j) => AllTasksDone(j)
            /\ IsSingle(j) => task[j][jobs[j].provider] = "done"
            /\ \A p \in Providers : task[j][p] \notin {"inflight", "settled"}

C26_Witness ==
    \E j \in JobIds :
        /\ IsComparison(j)
        /\ file[j] = "deleted"
        /\ outcome[j]["aws"] = ReturnCompleted
        /\ outcome[j]["deepgram"] = ReturnCompleted
        /\ raceFirst[j] = "none"

\* C27: a failing delete of the input file after completeJob leaves a
\* single-provider job as it was: no job has both a result and an error, and
\* a failed job has no result.
C27_ResultAndErrorExclusive ==
    \A j \in JobIds :
        IsSingle(j) =>
            /\ ~(jobs[j].result # NoResult /\ jobs[j].error # Undefined)
            /\ jobs[j].status = FAILED => jobs[j].result = NoResult

\* C28: a comparison job is processing right before it becomes completed or
\* failed: no step takes it from pending to a terminal status.
C28_TerminalFromProcessing ==
    [][\A j \in DOMAIN jobs \cap DOMAIN jobs' :
          (HasProviderResults(jobs[j]) /\ ~Terminal(jobs[j].status)
                                      /\ Terminal(jobs'[j].status)) =>
              jobs[j].status = PROCESSING]_vars

C28_Witness ==
    \E j \in JobIds :
        /\ IsComparison(j)
        /\ termTrans[j] = 1
        /\ Terminal(jobs[j].status)
        /\ pc[j] = "cmpWaiting"

\* C29: a comparison job is created with the two entries aws and deepgram,
\* both pending, and no call of the store adds a key to the providerResults of
\* a job or removes one.
C29_ProviderKeysFixed ==
    [][\A j \in DOMAIN jobs' :
          IF j \in DOMAIN jobs
          THEN DOMAIN jobs'[j].providerResults = DOMAIN jobs[j].providerResults
          ELSE HasProviderResults(jobs'[j]) =>
                  jobs'[j].providerResults = [p \in Providers |-> PendingEntry]]_vars

C29_Witness ==
    \E j \in DOMAIN jobs :
        /\ DOMAIN jobs[j].providerResults = Providers
        /\ jobs[j].providerResults["aws"].status = "failed"
        /\ jobs[j].providerResults["deepgram"].status = "completed"
        /\ jobs[j].status = FAILED
        /\ jobs[j].error = UnlinkMessage

\* What an entry of providerResults holds, by its status.
EntryShape(entry) ==
    CASE entry.status = "pending" ->
            entry.result = NoResult /\ entry.error = Undefined /\ entry.completedAt = NoDate
      [] entry.status = "completed" ->
            entry.result # NoResult /\ entry.error = Undefined
      [] entry.status = "failed" ->
            entry.error # Undefined /\ entry.result = NoResult
      [] OTHER -> FALSE

\* C30: while a comparison job runs, each entry of providerResults is pending,
\* completed or failed and holds what goes with that status, and an entry
\* changes at most once, from pending to completed or failed.
C30_EntryWrittenOnce ==
    /\ [](\A j \in DOMAIN jobs : \A p \in DOMAIN jobs[j].providerResults :
            EntryShape(jobs[j].providerResults[p]))
    /\ [][\A j \in DOMAIN jobs \cap DOMAIN jobs' :
            \A p \in DOMAIN jobs[j].providerResults :
                \/ jobs'[j].providerResults[p] = jobs[j].providerResults[p]
                \/ /\ jobs[j].providerResults[p].status = "pending"
                   /\ TerminalEntry(jobs'[j].providerResults[p].status)]_vars

C30_Witness ==
    \E j \in DOMAIN jobs :
        /\ IsComparison(j)
        /\ jobs[j].providerResults["aws"].status = "failed"
        /\ jobs[j].providerResults["aws"].error = Throws.message
        /\ jobs[j].providerResults["deepgram"].status = "completed"
        /\ jobs[j].providerResults["deepgram"].result = ReturnFailed.value
        /\ pc[j] = "done"

\* C31: the two adapter calls of a comparison job are started in the same
\* step, before the outcome of either is known: when one call goes in flight
\* the other one does too, and neither has an outcome yet.
C31_BothStartedTogether ==
    [][\A j \in DOMAIN jobs' : \A p \in Providers :
          (HasProviderResults(jobs'[j]) /\ task[j][p] = "none"
                                       /\ task'[j][p] # "none") =>
              \A q \in Providers :
                  /\ task[j][q] = "none"
                  /\ task'[j][q] = "inflight"
                  /\ outcome'[j][q] = NoOutcome]_vars

C31_Witness ==
    \E j \in JobIds :
        /\ IsComparison(j)
        /\ \A p \in Providers : task[j][p] = "inflight"
        /\ returned[j]

\* C32: a job keeps the mode it was created in: a single-provider job never
\* gets providerResults, a comparison job never gets a top-level result, and
\* the top-level result of a single-provider job is written at most once.
C32_ModeFixed ==
    /\ [](\A j \in DOMAIN jobs :
            /\ HasProviderResults(jobs[j]) => jobs[j].result = NoResult
            /\ HasProviderResults(jobs[j]) <=> jobs[j].provider = Undefined)
    /\ [][\A j \in DOMAIN jobs \cap DOMAIN jobs' :
            /\ HasProviderResults(jobs'[j]) <=> HasProviderResults(jobs[j])
            /\ jobs'[j].result # jobs[j].result =>
                   ~HasProviderResults(jobs[j]) /\ jobs[j].result = NoResult]_vars

C32_Witness ==
    /\ \E j \in DOMAIN jobs :
          /\ IsSingle(j)
          /\ jobs[j].result = ReturnCompleted.value
          /\ pc[j] = "done"
    /\ \E j \in DOMAIN jobs :
          /\ IsComparison(j)
          /\ Terminal(jobs[j].status)
          /\ jobs[j].result = NoResult
          /\ pc[j] = "done"

\* C33: what a job was created with stays as it was: no step changes the id,
\* fileName, filePath, languageCode, provider, deepgramModel or createdAt of
\* a job that is in the store before and after it, every entry is filed
\* under its own id, and a creation adds one entry under an id that no job
\* in the store had.
C33_CreationFieldsFixed ==
    /\ [](\A j \in DOMAIN jobs : jobs[j].id = j)
    /\ [][/\ \A j \in DOMAIN jobs \cap DOMAIN jobs' :
               /\ jobs'[j].id = jobs[j].id
               /\ jobs'[j].fileName = jobs[j].fileName
               /\ jobs'[j].filePath = jobs[j].filePath
               /\ jobs'[j].languageCode = jobs[j].languageCode
               /\ jobs'[j].provider = jobs[j].provider
               /\ jobs'[j].deepgramModel = jobs[j].deepgramModel
               /\ jobs'[j].createdAt = jobs[j].createdAt
          /\ nextId' # nextId =>
               /\ DOMAIN jobs' \ DOMAIN jobs = {nextId'}
               /\ DOMAIN jobs \subseteq DOMAIN jobs'
               /\ \A k \in DOMAIN jobs : jobs[k].id # jobs'[nextId'].id]_vars

C33_Witness ==
    /\ Cardinality(DOMAIN jobs) = 1
    /\ evicted # {}
    /\ \E j \in DOMAIN jobs :
          /\ jobs[j].status = FAILED
          /\ jobs[j].error # Undefined
          /\ jobs[j].createdAt > 0
          /\ jobs[j].completedAt > jobs[j].createdAt
          /\ jobs[j].filePath = FilePath(j)

\* C34: a sweep only deletes: it adds no entry, and every job still in the
\* store after it has the status, result, error, providerResults and
\* completedAt it had before.
C34_SweepOnlyDeletes ==
    [][Sweep =>
          /\ DOMAIN jobs' \subseteq DOMAIN jobs
          /\ \A j \in DOMAIN jobs' :
                /\ jobs'[j].status = jobs[j].status
                /\ jobs'[j].result = jobs[j].result
                /\ jobs'[j].error = jobs[j].error
                /\ jobs'[j].providerResults = jobs[j].providerResults
                /\ jobs'[j].completedAt = jobs[j].completedAt]_vars

C34_Witness ==
    /\ evicted # {}
    /\ \E j \in DOMAIN jobs :
          /\ jobs[j].status = COMPLETED
          /\ jobs[j].result # NoResult
          /\ jobs[j].completedAt # NoDate
          /\ jobs[j].completedAt < now

\* C35: a writer called with an id the store does not hold changes nothing
\* and creates no entry, whatever its other arguments; updateProviderResult
\* and failProviderResult called on a job without providerResults change
\* nothing either.
C35_UnknownIdIsNoOp ==
    \A j \in JobIds :
        /\ j \notin DOMAIN jobs =>
              /\ \A st \in JobStatus :
                    ENABLED (CallUpdateJobStatus(j, st) /\ jobs' = jobs)
              /\ \A r \in StoreResults :
                    ENABLED (CallCompleteJob(j, r) /\ jobs' = jobs)
              /\ \A e \in StoreErrors :
                    ENABLED (CallFailJob(j, e) /\ jobs' = jobs)
        /\ (j \in DOMAIN jobs => ~HasProviderResults(jobs[j])) =>
              \A p \in Providers :
                  /\ \A r \in StoreResults :
                        ENABLED (CallUpdateProviderResult(j, p, r) /\ jobs' = jobs)
                  /\ \A e \in StoreErrors :
                        ENABLED (CallFailProviderResult(j, p, e) /\ jobs' = jobs)

C35_Witness ==
    /\ JobIds \ DOMAIN jobs # {}
    /\ \E j \in DOMAIN jobs :
          /\ ~HasProviderResults(jobs[j])
          /\ jobs[j].status = PROCESSING
          /\ jobs[j].createdAt < now

\* C36: transcribeFile of the AWS adapter polls until the remote job is
\* final: whenever it has returned, the status it returned is COMPLETED or
\* FAILED.
C36_AwsReturnsFinalStatus ==
    \A j \in JobIds :
        awsCall[j].pc = "returned" =>
            outcome[j]["aws"].value.status \in {"COMPLETED", "FAILED"}

\* C37: no uploaded file is left on disk without a job that deletes it: when
\* uploadWithProvider turns a request away for its provider, the file stored
\* for the request is not on disk afterwards.
C37_NoOrphanUpload == orphan # "present"
====
